---------------------------- MODULE Spec2Model ----------------------------
(***************************************************************************)
(* A model of the lmath geometry library: Plane3 (src/math/plane.rs) and   *)
(* Quat (src/math/quat.rs).                                                *)
(*                                                                         *)
(* The library is generic over a Float scalar T.  A scalar is modelled as  *)
(* an exact rational [n, d] in lowest terms (d > 0), extended with the     *)
(* three non-finite values a float division can produce: d = 0 stands for  *)
(* NaN (n = 0), +infinity (n = 1) and -infinity (n = -1).  sqrt, acos, cos *)
(* and sin are exact; the operations are applied only to inputs on which   *)
(* their results are rational (the Exact guards of the initial states).    *)
(***************************************************************************)
EXTENDS Integers, Sequences, FiniteSets, TLC

VARIABLES pc, args, out

vars == <<pc, args, out>>

(***************************************************************************)
(* Bounds of the input sets.                                               *)
(***************************************************************************)
MaxCoord == 1
MaxDist == 2
MaxAmount == 2

(***************************************************************************)
(* Scalars.                                                                *)
(***************************************************************************)
Abs(i) == IF i < 0 THEN -i ELSE i

RECURSIVE Gcd(_, _)
Gcd(a, b) == IF b = 0 THEN a ELSE Gcd(b, a % b)

Rat(n, d) ==
    LET g == Gcd(Abs(n), d)
    IN  [n |-> n \div g, d |-> d \div g]

R(i) == [n |-> i, d |-> 1]

NaN == [n |-> 0, d |-> 0]

Inf(s) == [n |-> s, d |-> 0]

Zero == R(0)

One == R(1)

IsFinite(x) == x.d > 0

IsNaN(x) == x.d = 0 /\ x.n = 0

Sign(i) == IF i > 0 THEN 1 ELSE IF i < 0 THEN -1 ELSE 0

Neg(x) == [n |-> -x.n, d |-> x.d]

Add(x, y) ==
    IF IsFinite(x) /\ IsFinite(y)
    THEN LET g == Gcd(x.d, y.d)
             l == (x.d \div g) * y.d
         IN  Rat(x.n * (l \div x.d) + y.n * (l \div y.d), l)
    ELSE IF IsNaN(x) \/ IsNaN(y) THEN NaN
    ELSE IF ~IsFinite(x) /\ ~IsFinite(y)
         THEN (IF x.n = y.n THEN x ELSE NaN)
    ELSE IF IsFinite(x) THEN y ELSE x

Sub(x, y) == Add(x, Neg(y))

Two == Add(One, One)

Mul(x, y) ==
    IF IsFinite(x) /\ IsFinite(y)
    THEN LET g1 == Gcd(Abs(x.n), y.d)
             g2 == Gcd(Abs(y.n), x.d)
         IN  [n |-> (x.n \div g1) * (y.n \div g2),
              d |-> (x.d \div g2) * (y.d \div g1)]
    ELSE IF IsNaN(x) \/ IsNaN(y) THEN NaN
    ELSE IF x.n = 0 \/ y.n = 0 THEN NaN
    ELSE Inf(Sign(x.n) * Sign(y.n))

Recip(x) ==
    IF IsNaN(x) THEN NaN
    ELSE IF ~IsFinite(x) THEN Zero
    ELSE IF x.n = 0 THEN Inf(1)
    ELSE IF x.n > 0 THEN [n |-> x.d, d |-> x.n]
    ELSE [n |-> -x.d, d |-> -x.n]

Div(x, y) == Mul(x, Recip(y))

\* a/b < c/d for b, d > 0, by comparing the continued fractions.
RECURSIVE LtFrac(_, _, _, _)
LtFrac(a, b, c, d) ==
    IF a \div b # c \div d THEN a \div b < c \div d
    ELSE IF c % d = 0 THEN FALSE
    ELSE IF a % b = 0 THEN TRUE
    ELSE LtFrac(d, c % d, b, a % b)

\* The float comparison x < y: false whenever a NaN is involved.
Lt(x, y) ==
    IF IsNaN(x) \/ IsNaN(y) THEN FALSE
    ELSE IF IsFinite(x) /\ IsFinite(y) THEN LtFrac(x.n, x.d, y.n, y.d)
    ELSE IF ~IsFinite(x) /\ ~IsFinite(y) THEN x.n < y.n
    ELSE IF IsFinite(x) THEN y.n > 0
    ELSE x.n < 0

Gt(x, y) == Lt(y, x)

AbsS(x) == [n |-> Abs(x.n), d |-> x.d]

RECURSIVE ISqrtB(_, _, _)
ISqrtB(n, lo, hi) ==
    IF lo >= hi THEN lo
    ELSE LET mid == (lo + hi + 1) \div 2
         IN  IF mid * mid <= n THEN ISqrtB(n, mid, hi) ELSE ISqrtB(n, lo, mid - 1)

ISqrt(n) == ISqrtB(n, 0, IF n < 46340 THEN n ELSE 46340)

IsSquare(n) == n >= 0 /\ ISqrt(n) * ISqrt(n) = n

\* The scalars whose square root is a scalar of the model.
ExactSqrt(x) == ~IsFinite(x) \/ x.n < 0 \/ (IsSquare(x.n) /\ IsSquare(x.d))

Sqrt(x) ==
    IF IsNaN(x) THEN NaN
    ELSE IF ~IsFinite(x) THEN (IF x.n > 0 THEN x ELSE NaN)
    ELSE IF x.n < 0 THEN NaN
    ELSE [n |-> ISqrt(x.n), d |-> ISqrt(x.d)]

\* Default tolerance of the float types.
approx_epsilon == [n |-> 1, d |-> 1000000]

\* |x - y| < epsilon
scalar_approx_eq_eps(x, y, epsilon) == Lt(AbsS(Sub(x, y)), epsilon)

clamp(x, lo, hi) ==
    IF Lt(x, lo) THEN lo
    ELSE IF Gt(x, hi) THEN hi
    ELSE x

(***************************************************************************)
(* Vec3 and Mat3 (the vector/matrix module the planes and quaternions are  *)
(* built on).  A Mat3 is three column vectors x, y, z.                     *)
(***************************************************************************)
Vec3_new(x, y, z) == [x |-> x, y |-> y, z |-> z]

Vec3_zero == Vec3_new(Zero, Zero, Zero)

Vec3_add_v(a, b) == Vec3_new(Add(a.x, b.x), Add(a.y, b.y), Add(a.z, b.z))

Vec3_mul_s(a, s) == Vec3_new(Mul(a.x, s), Mul(a.y, s), Mul(a.z, s))

Vec3_div_s(a, s) == Vec3_new(Div(a.x, s), Div(a.y, s), Div(a.z, s))

Vec3_neg(a) == Vec3_new(Neg(a.x), Neg(a.y), Neg(a.z))

Vec3_dot(a, b) == Add(Add(Mul(a.x, b.x), Mul(a.y, b.y)), Mul(a.z, b.z))

Vec3_cross(a, b) ==
    Vec3_new(Sub(Mul(a.y, b.z), Mul(a.z, b.y)),
             Sub(Mul(a.z, b.x), Mul(a.x, b.z)),
             Sub(Mul(a.x, b.y), Mul(a.y, b.x)))

Vec3_magnitude2(a) == Vec3_dot(a, a)

Vec3_magnitude(a) == Sqrt(Vec3_magnitude2(a))

Vec3_normalize(a) == Vec3_mul_s(a, Div(One, Vec3_magnitude(a)))

Vec3_approx_eq(a, b) ==
    /\ scalar_approx_eq_eps(a.x, b.x, approx_epsilon)
    /\ scalar_approx_eq_eps(a.y, b.y, approx_epsilon)
    /\ scalar_approx_eq_eps(a.z, b.z, approx_epsilon)

\* The nine arguments are read column by column.
Mat3_new(c0r0, c0r1, c0r2, c1r0, c1r1, c1r2, c2r0, c2r1, c2r2) ==
    [x |-> Vec3_new(c0r0, c0r1, c0r2),
     y |-> Vec3_new(c1r0, c1r1, c1r2),
     z |-> Vec3_new(c2r0, c2r1, c2r2)]

Mat3_from_cols(c0, c1, c2) == [x |-> c0, y |-> c1, z |-> c2]

Mat3_transpose(m) ==
    Mat3_new(m.x.x, m.y.x, m.z.x,
             m.x.y, m.y.y, m.z.y,
             m.x.z, m.y.z, m.z.z)

Mat3_determinant(m) == Vec3_dot(m.x, Vec3_cross(m.y, m.z))

Mat3_mul_v(m, v) ==
    Vec3_new(Add(Add(Mul(m.x.x, v.x), Mul(m.y.x, v.y)), Mul(m.z.x, v.z)),
             Add(Add(Mul(m.x.y, v.x), Mul(m.y.y, v.y)), Mul(m.z.y, v.z)),
             Add(Add(Mul(m.x.z, v.x), Mul(m.y.z, v.y)), Mul(m.z.z, v.z)))

None == [some |-> FALSE]

Some(v) == [some |-> TRUE, val |-> v]

\* The inverse fails exactly on a singular matrix.
Mat3_inverse(m) ==
    LET d == Mat3_determinant(m)
    IN  IF d = Zero THEN None
        ELSE Some(Mat3_transpose(Mat3_from_cols(
                      Vec3_div_s(Vec3_cross(m.y, m.z), d),
                      Vec3_div_s(Vec3_cross(m.z, m.x), d),
                      Vec3_div_s(Vec3_cross(m.x, m.y), d))))

(***************************************************************************)
(* Point3 (src/math/point.rs).                                             *)
(***************************************************************************)
Point3_new(x, y, z) == [x |-> x, y |-> y, z |-> z]

Point3_origin == Point3_new(Zero, Zero, Zero)

\* A point read as a vector of the same layout.
as_vec3(p) == Vec3_new(p.x, p.y, p.z)

Point3_translate_v(p, offset) ==
    Point3_new(Add(p.x, offset.x), Add(p.y, offset.y), Add(p.z, offset.z))

Point3_displacement_reversed(p, other) ==
    Vec3_new(Sub(other.x, p.x), Sub(other.y, p.y), Sub(other.z, p.z))

Point3_displacement(p, other) ==
    Vec3_new(Sub(p.x, other.x), Sub(p.y, other.y), Sub(p.z, other.z))

Point3_add(p, offset) == Point3_translate_v(p, offset)

Point3_sub(p, other) == Point3_displacement(p, other)

Point3_distance2(p, other) == Vec3_magnitude2(Point3_sub(other, p))

Point3_distance(p, other) == Sqrt(Point3_distance2(other, p))

Point3_direction(p, other) == Vec3_normalize(Point3_sub(other, p))

(***************************************************************************)
(* Vec2: the operations of the two-dimensional vector that Point2 calls.   *)
(***************************************************************************)
Vec2_new(x, y) == [x |-> x, y |-> y]

Vec2_mul_s(a, s) == Vec2_new(Mul(a.x, s), Mul(a.y, s))

Vec2_neg(a) == Vec2_new(Neg(a.x), Neg(a.y))

Vec2_dot(a, b) == Add(Mul(a.x, b.x), Mul(a.y, b.y))

Vec2_magnitude2(a) == Vec2_dot(a, a)

Vec2_magnitude(a) == Sqrt(Vec2_magnitude2(a))

Vec2_normalize(a) == Vec2_mul_s(a, Div(One, Vec2_magnitude(a)))

(***************************************************************************)
(* Point2 (src/math/point.rs).                                             *)
(***************************************************************************)
Point2_new(x, y) == [x |-> x, y |-> y]

Point2_translate_v(p, offset) == Point2_new(Add(p.x, offset.x), Add(p.y, offset.y))

Point2_displacement(p, other) == Vec2_new(Sub(p.x, other.x), Sub(p.y, other.y))

Point2_add(p, offset) == Point2_translate_v(p, offset)

Point2_sub(p, other) == Point2_displacement(p, other)

Point2_distance2(p, other) == Vec2_magnitude2(Point2_sub(other, p))

Point2_distance(p, other) == Sqrt(Point2_distance2(other, p))

Point2_direction(p, other) == Vec2_normalize(Point2_sub(other, p))

(***************************************************************************)
(* Plane3 (src/math/plane.rs).                                             *)
(***************************************************************************)
from_nd(normal, distance) == [normal |-> normal, distance |-> distance]

from_abcd(a, b, c, d) == [normal |-> Vec3_new(a, b, c), distance |-> d]

Plane3_distance(self, pos) == Add(Vec3_dot(self.normal, as_vec3(pos)), self.distance)

\* fail!(~"not yet implemented"): the task aborts, no value is returned.
Abort == [abort |-> TRUE]

intersection_r(self, ray) == Abort

intersects(self, ray) == Abort

\* from_3p computing the distance before the normal is normalised.
from_3p_distance_first(a, b, c) ==
    LET v0 == Point3_sub(b, a)
        v1 == Point3_sub(c, a)
        normal == Vec3_cross(v0, v1)
    IN  IF Vec3_approx_eq(normal, Vec3_zero) THEN None
        ELSE LET distance == Neg(Vec3_dot(as_vec3(a), normal))
             IN  Some(from_nd(Vec3_normalize(normal), distance))

\* from_3p testing only the x component of the normal for degeneracy.
from_3p_x_only(a, b, c) ==
    LET v0 == Point3_sub(b, a)
        v1 == Point3_sub(c, a)
        normal == Vec3_cross(v0, v1)
    IN  IF scalar_approx_eq_eps(normal.x, Zero, approx_epsilon) THEN None
        ELSE LET n1 == Vec3_normalize(normal)
                 distance == Neg(Vec3_dot(as_vec3(a), n1))
             IN  Some(from_nd(n1, distance))

\* from_3p without the normalisation of the normal.
from_3p_unnormalized(a, b, c) ==
    LET v0 == Point3_sub(b, a)
        v1 == Point3_sub(c, a)
        normal == Vec3_cross(v0, v1)
    IN  IF Vec3_approx_eq(normal, Vec3_zero) THEN None
        ELSE Some(from_nd(normal, Neg(Vec3_dot(as_vec3(a), normal))))

from_3p(a, b, c) ==
    LET v0 == Point3_sub(b, a)
        v1 == Point3_sub(c, a)
        normal == Vec3_cross(v0, v1)
    IN  IF Vec3_approx_eq(normal, Vec3_zero) THEN None
        ELSE LET n1 == Vec3_normalize(normal)
                 distance == Neg(Vec3_dot(as_vec3(a), n1))
             IN  Some(from_nd(n1, distance))

\* intersection_3pl solving normal . p = -distance.
intersection_3pl_negated(self, other_a, other_b) ==
    LET mx == Mat3_new(self.normal.x, other_a.normal.x, other_b.normal.x,
                       self.normal.y, other_a.normal.y, other_b.normal.y,
                       self.normal.z, other_a.normal.z, other_b.normal.z)
        inv == Mat3_inverse(mx)
    IN  IF inv.some
        THEN Some(Point3_add(Point3_origin,
                             Mat3_mul_v(inv.val, Vec3_new(Neg(self.distance),
                                                          Neg(other_a.distance),
                                                          Neg(other_b.distance)))))
        ELSE None

intersection_3pl(self, other_a, other_b) ==
    LET mx == Mat3_new(self.normal.x, other_a.normal.x, other_b.normal.x,
                       self.normal.y, other_a.normal.y, other_b.normal.y,
                       self.normal.z, other_a.normal.z, other_b.normal.z)
        inv == Mat3_inverse(mx)
    IN  IF inv.some
        THEN Some(Point3_add(Point3_origin,
                             Mat3_mul_v(inv.val, Vec3_new(self.distance,
                                                          other_a.distance,
                                                          other_b.distance))))
        ELSE None

Ray3_new(origin, direction) == [origin |-> origin, direction |-> direction]

\* intersection_2pl with the operands of the cross product exchanged.
intersection_2pl_swapped(self, other) ==
    LET dir == Vec3_cross(other.normal, self.normal)
    IN  IF Vec3_approx_eq(dir, Vec3_zero) THEN None
        ELSE LET o == intersection_3pl(from_nd(dir, Zero), self, other)
             IN  IF o.some THEN Some(Ray3_new(o.val, dir)) ELSE None

intersection_2pl(self, other) ==
    LET dir == Vec3_cross(self.normal, other.normal)
    IN  IF Vec3_approx_eq(dir, Vec3_zero) THEN None
        ELSE LET o == intersection_3pl(from_nd(dir, Zero), self, other)
             IN  IF o.some THEN Some(Ray3_new(o.val, dir)) ELSE None

(***************************************************************************)
(* Angles.  acos yields the angle whose cosine is its argument, kept as    *)
(* that cosine and a multiplier k: the angle k * acos(c).  cos and sin of  *)
(* an integer multiple are computed by the angle-addition formulas from    *)
(* cos = c and sin = sqrt(1 - c*c) >= 0.                                   *)
(***************************************************************************)
acos(x) == [c |-> x, k |-> One]

Angle_mul(theta, amount) == [c |-> theta.c, k |-> Mul(theta.k, amount)]

RECURSIVE CosSin(_, _, _)
CosSin(c, s, m) ==
    IF m = 0 THEN <<One, Zero>>
    ELSE LET p == CosSin(c, s, m - 1)
         IN  <<Sub(Mul(p[1], c), Mul(p[2], s)), Add(Mul(p[2], c), Mul(p[1], s))>>

ExactAngle(theta) ==
    \/ theta.k = Zero
    \/ theta.k.d = 1 /\ ExactSqrt(Sub(One, Mul(theta.c, theta.c)))

cos(theta) ==
    CosSin(theta.c, Sqrt(Sub(One, Mul(theta.c, theta.c))), Abs(theta.k.n))[1]

sin(theta) ==
    LET s == CosSin(theta.c, Sqrt(Sub(One, Mul(theta.c, theta.c))), Abs(theta.k.n))[2]
    IN  IF theta.k.n < 0 THEN Neg(s) ELSE s

(***************************************************************************)
(* Quat (src/math/quat.rs).                                                *)
(***************************************************************************)
from_sv(s, v) == [s |-> s, v |-> v]

Quat_new(w, xi, yj, zk) == from_sv(w, Vec3_new(xi, yj, zk))

\* The components by index: s, v.x, v.y, v.z.
Quat_i(q, i) ==
    IF i = 0 THEN q.s ELSE IF i = 1 THEN q.v.x ELSE IF i = 2 THEN q.v.y ELSE q.v.z

Quat_mul_s(self, value) == from_sv(Mul(self.s, value), Vec3_mul_s(self.v, value))

Quat_div_s(self, value) == from_sv(Div(self.s, value), Vec3_div_s(self.v, value))

add_q(self, other) ==
    Quat_new(Add(Quat_i(self, 0), Quat_i(other, 0)),
             Add(Quat_i(self, 1), Quat_i(other, 1)),
             Add(Quat_i(self, 2), Quat_i(other, 2)),
             Add(Quat_i(self, 3), Quat_i(other, 3)))

sub_q(self, other) ==
    Quat_new(Sub(Quat_i(self, 0), Quat_i(other, 0)),
             Sub(Quat_i(self, 1), Quat_i(other, 1)),
             Sub(Quat_i(self, 2), Quat_i(other, 2)),
             Sub(Quat_i(self, 3), Quat_i(other, 3)))

\* mul_q with the sign of one cross term slipped.
mul_q_sign_slip(self, other) ==
    Quat_new(Sub(Sub(Sub(Mul(self.s, other.s), Mul(self.v.x, other.v.x)),
                     Mul(self.v.y, other.v.y)), Mul(self.v.z, other.v.z)),
             Sub(Add(Add(Mul(self.s, other.v.x), Mul(self.v.x, other.s)),
                     Mul(self.v.y, other.v.z)), Mul(self.v.z, other.v.y)),
             Add(Add(Add(Mul(self.s, other.v.y), Mul(self.v.y, other.s)),
                     Mul(self.v.z, other.v.x)), Mul(self.v.x, other.v.z)),
             Sub(Add(Add(Mul(self.s, other.v.z), Mul(self.v.z, other.s)),
                     Mul(self.v.x, other.v.y)), Mul(self.v.y, other.v.x)))

mul_q(self, other) ==
    Quat_new(Sub(Sub(Sub(Mul(self.s, other.s), Mul(self.v.x, other.v.x)),
                     Mul(self.v.y, other.v.y)), Mul(self.v.z, other.v.z)),
             Sub(Add(Add(Mul(self.s, other.v.x), Mul(self.v.x, other.s)),
                     Mul(self.v.y, other.v.z)), Mul(self.v.z, other.v.y)),
             Sub(Add(Add(Mul(self.s, other.v.y), Mul(self.v.y, other.s)),
                     Mul(self.v.z, other.v.x)), Mul(self.v.x, other.v.z)),
             Sub(Add(Add(Mul(self.s, other.v.z), Mul(self.v.z, other.s)),
                     Mul(self.v.x, other.v.y)), Mul(self.v.y, other.v.x)))

Quat_dot(self, other) == Add(Mul(self.s, other.s), Vec3_dot(self.v, other.v))

Quat_magnitude2(self) == Add(Mul(self.s, self.s), Vec3_magnitude2(self.v))

Quat_magnitude(self) == Sqrt(Quat_magnitude2(self))

Quat_normalize(self) == Quat_mul_s(self, Div(One, Quat_magnitude(self)))

nlerp(self, other, amount) ==
    Quat_normalize(add_q(Quat_mul_s(self, Sub(One, amount)), Quat_mul_s(other, amount)))

dot_threshold == Rat(9995, 10000)

\* The locals of one call of slerp: the branch taken, the arguments acos was
\* called with (none on the nlerp branch), the factor d of the orthogonal
\* component other - self*d, and the value returned.
slerp_locals_ge(self, other, amount) ==
    LET dot == Quat_dot(self, other)
    IN  IF ~Lt(dot, dot_threshold)
        THEN [path |-> "nlerp", acos_args |-> <<>>, orth_args |-> <<>>,
              result |-> nlerp(self, other, amount)]
        ELSE LET robust_dot == clamp(dot, Neg(One), One)
                 theta_0 == acos(robust_dot)
                 theta == Angle_mul(theta_0, amount)
                 q == Quat_normalize(sub_q(other, Quat_mul_s(self, robust_dot)))
             IN  [path |-> "trig", acos_args |-> <<robust_dot>>,
                  orth_args |-> <<robust_dot>>,
                  result |-> add_q(Quat_mul_s(self, cos(theta)),
                                   Quat_mul_s(q, sin(theta)))]

slerp_locals_unclamped(self, other, amount) ==
    LET dot == Quat_dot(self, other)
    IN  IF Gt(dot, dot_threshold)
        THEN [path |-> "nlerp", acos_args |-> <<>>, orth_args |-> <<>>,
              result |-> nlerp(self, other, amount)]
        ELSE LET robust_dot == dot
                 theta_0 == acos(robust_dot)
                 theta == Angle_mul(theta_0, amount)
                 q == Quat_normalize(sub_q(other, Quat_mul_s(self, robust_dot)))
             IN  [path |-> "trig", acos_args |-> <<robust_dot>>,
                  orth_args |-> <<robust_dot>>,
                  result |-> add_q(Quat_mul_s(self, cos(theta)),
                                   Quat_mul_s(q, sin(theta)))]

slerp_locals(self, other, amount) ==
    LET dot == Quat_dot(self, other)
    IN  IF Gt(dot, dot_threshold)
        THEN [path |-> "nlerp", acos_args |-> <<>>, orth_args |-> <<>>,
              result |-> nlerp(self, other, amount)]
        ELSE LET robust_dot == clamp(dot, Neg(One), One)
                 theta_0 == acos(robust_dot)
                 theta == Angle_mul(theta_0, amount)
                 q == Quat_normalize(sub_q(other, Quat_mul_s(self, robust_dot)))
             IN  [path |-> "trig", acos_args |-> <<robust_dot>>,
                  orth_args |-> <<robust_dot>>,
                  result |-> add_q(Quat_mul_s(self, cos(theta)),
                                   Quat_mul_s(q, sin(theta)))]

slerp(self, other, amount) == slerp_locals(self, other, amount).result

Quat_neg(self) == from_sv(Neg(self.s), Vec3_neg(self.v))

mul_v_no_two(self, vec) ==
    LET tmp == Vec3_add_v(Vec3_cross(self.v, vec), Vec3_mul_s(vec, self.s))
    IN  Vec3_add_v(Vec3_cross(self.v, tmp), vec)

mul_v(self, vec) ==
    LET tmp == Vec3_add_v(Vec3_cross(self.v, vec), Vec3_mul_s(vec, self.s))
    IN  Vec3_add_v(Vec3_mul_s(Vec3_cross(self.v, tmp), Two), vec)

conjugate(self) == from_sv(self.s, Vec3_neg(self.v))

inverse(self) == Quat_div_s(conjugate(self), Quat_magnitude2(self))

to_mat3_row_major(self) ==
    LET x2 == Add(self.v.x, self.v.x)
        y2 == Add(self.v.y, self.v.y)
        z2 == Add(self.v.z, self.v.z)
        xx2 == Mul(x2, self.v.x)
        xy2 == Mul(x2, self.v.y)
        xz2 == Mul(x2, self.v.z)
        yy2 == Mul(y2, self.v.y)
        yz2 == Mul(y2, self.v.z)
        zz2 == Mul(z2, self.v.z)
        sy2 == Mul(y2, self.s)
        sz2 == Mul(z2, self.s)
        sx2 == Mul(x2, self.s)
        one_ == One
    IN  Mat3_new(Sub(Sub(one_, yy2), zz2), Sub(xy2, sz2), Add(xz2, sy2),
                 Add(xy2, sz2), Sub(Sub(one_, xx2), zz2), Sub(yz2, sx2),
                 Sub(xz2, sy2), Add(yz2, sx2), Sub(Sub(one_, xx2), yy2))

to_mat3(self) ==
    LET x2 == Add(self.v.x, self.v.x)
        y2 == Add(self.v.y, self.v.y)
        z2 == Add(self.v.z, self.v.z)
        xx2 == Mul(x2, self.v.x)
        xy2 == Mul(x2, self.v.y)
        xz2 == Mul(x2, self.v.z)
        yy2 == Mul(y2, self.v.y)
        yz2 == Mul(y2, self.v.z)
        zz2 == Mul(z2, self.v.z)
        sy2 == Mul(y2, self.s)
        sz2 == Mul(z2, self.s)
        sx2 == Mul(x2, self.s)
        one_ == One
    IN  Mat3_new(Sub(Sub(one_, yy2), zz2), Add(xy2, sz2), Sub(xz2, sy2),
                 Sub(xy2, sz2), Sub(Sub(one_, xx2), zz2), Add(yz2, sx2),
                 Add(xz2, sy2), Sub(yz2, sx2), Sub(Sub(one_, xx2), yy2))

Quat_approx_eq_eps(self, other, epsilon) ==
    /\ scalar_approx_eq_eps(self.s, other.s, epsilon)
    /\ scalar_approx_eq_eps(self.v.x, other.v.x, epsilon)
    /\ scalar_approx_eq_eps(self.v.y, other.v.y, epsilon)
    /\ scalar_approx_eq_eps(self.v.z, other.v.z, epsilon)

Quat_approx_eq(self, other) == Quat_approx_eq_eps(self, other, approx_epsilon)

(***************************************************************************)
(* A call: pc = "call" with the arguments in args, then pc = "done" with   *)
(* the outcome in out: a returned value, or the abort of a failed task.    *)
(***************************************************************************)
Pending == [abort |-> FALSE]

Return(v) == [abort |-> FALSE, val |-> v]

(***************************************************************************)
(* Inputs of the plane operations.                                         *)
(***************************************************************************)
Tiny == Rat(1, 2000)

Coords == {R(i) : i \in -MaxCoord..MaxCoord}

Coefs == Coords \cup {R(2), Tiny}

Dists == {R(i) : i \in -1..MaxDist}

P(x, y, z) == Point3_new(R(x), R(y), R(z))

V(x, y, z) == Vec3_new(R(x), R(y), R(z))

GridPoints == {Point3_new(x, y, z) : x \in Coords, y \in Coords, z \in Coords}

ExtraPoints ==
    {P(5, 0, 5), P(5, 5, 5), P(5, 0, -1), P(0, 5, -5), P(0, 5, 0), P(0, 5, 5),
     P(2, 1, -2), P(2, -2, 1)}

TinyPoints == {Point3_new(Tiny, Zero, Zero), Point3_new(Zero, Tiny, Zero)}

SecondPoints(a) ==
    GridPoints \cup ExtraPoints \cup (IF a = P(0, 0, 0) THEN TinyPoints ELSE {})

FirstPoints == {P(0, 0, 0), P(5, 0, 5), P(0, 5, -5), P(1, 0, -1)}

\* The triples on which the normalisation of from_3p is exact.
From3pExact(i) ==
    LET normal == Vec3_cross(Point3_sub(i.b, i.a), Point3_sub(i.c, i.a))
    IN  Vec3_approx_eq(normal, Vec3_zero) \/ ExactSqrt(Vec3_magnitude2(normal))

GridNormals == {Vec3_new(a, b, c) : a \in Coords, b \in Coords, c \in Coords}

GridPlanes == {from_nd(n, d) : n \in GridNormals, d \in Dists}

XPlanes == {from_abcd(a, Zero, Zero, d) : a \in Coefs, d \in Dists}

MidPlanes == {from_nd(n, d) : n \in GridNormals, d \in {R(0), R(2)}}

ZPlanes ==
    {from_abcd(Zero, Zero, c, R(1)) : c \in Coefs}
        \cup {from_abcd(R(1), R(1), R(1), R(0)), from_abcd(R(1), R(1), R(1), R(-1)),
              from_abcd(R(1), R(2), R(2), R(3))}

TinyPlanes ==
    {from_abcd(Tiny, Zero, Zero, R(1)), from_abcd(Zero, Tiny, Zero, R(1)),
     from_abcd(R(1), Tiny, Zero, Zero)}

OtherPlanes == {from_nd(n, d) : n \in GridNormals, d \in {R(0), R(1)}} \cup TinyPlanes

Rays ==
    {Ray3_new(o, d) : o \in {P(0, 0, 0), P(1, 1, 1), P(0, 0, -1)},
                      d \in {V(1, 0, 0), V(0, 0, 1), V(0, 1, 1), V(0, 0, -1)}}

RayPlanes == {from_abcd(a, Zero, c, d) : a \in Coords, c \in Coords, d \in Dists}

(***************************************************************************)
(* The plane operations as calls.                                          *)
(***************************************************************************)
InitPlane ==
    /\ pc = "call"
    /\ out = Pending
    /\ \/ \E a \in FirstPoints : \E b \in SecondPoints(a), c \in SecondPoints(a) :
              /\ args = [fn |-> "from_3p", a |-> a, b |-> b, c |-> c]
              /\ From3pExact(args)
       \/ \E s \in XPlanes, a \in MidPlanes, b \in ZPlanes :
              args = [fn |-> "intersection_3pl", self |-> s, other_a |-> a, other_b |-> b]
       \/ \E s \in GridPlanes \cup TinyPlanes, o \in OtherPlanes :
              args = [fn |-> "intersection_2pl", self |-> s, other |-> o]
       \/ \E f \in {"intersection_r", "intersects"}, s \in RayPlanes, r \in Rays :
              args = [fn |-> f, self |-> s, ray |-> r]

From3p ==
    /\ pc = "call"
    /\ args.fn = "from_3p"
    /\ out' = Return(from_3p(args.a, args.b, args.c))
    /\ pc' = "done"
    /\ UNCHANGED args

Intersection3pl ==
    /\ pc = "call"
    /\ args.fn = "intersection_3pl"
    /\ out' = Return(intersection_3pl(args.self, args.other_a, args.other_b))
    /\ pc' = "done"
    /\ UNCHANGED args

Intersection2pl ==
    /\ pc = "call"
    /\ args.fn = "intersection_2pl"
    /\ out' = Return(intersection_2pl(args.self, args.other))
    /\ pc' = "done"
    /\ UNCHANGED args

IntersectionR ==
    /\ pc = "call"
    /\ args.fn = "intersection_r"
    /\ out' = intersection_r(args.self, args.ray)
    /\ pc' = "done"
    /\ UNCHANGED args

Intersects ==
    /\ pc = "call"
    /\ args.fn = "intersects"
    /\ out' = intersects(args.self, args.ray)
    /\ pc' = "done"
    /\ UNCHANGED args

NextPlane ==
    \/ From3p
    \/ Intersection3pl
    \/ Intersection2pl
    \/ IntersectionR
    \/ Intersects

SpecPlane == InitPlane /\ [][NextPlane]_vars

Done(f) == pc = "done" /\ args.fn = f

ApproxZero(x) == scalar_approx_eq_eps(x, Zero, approx_epsilon)

(***************************************************************************)
(* Properties of the plane operations.                                     *)
(***************************************************************************)
Normal3p(i) == Vec3_cross(Point3_sub(i.b, i.a), Point3_sub(i.c, i.a))

\* C1: for three planes whose normals are linearly independent,
\* intersection_3pl returns Some(p) with p at distance (approximately) 0 from
\* each of the three planes; for linearly dependent normals it returns None.
C1_Intersection3plOnAllPlanes ==
    Done("intersection_3pl") =>
        LET independent ==
                Vec3_dot(args.self.normal,
                         Vec3_cross(args.other_a.normal, args.other_b.normal)) # Zero
        IN  /\ ~out.abort
            /\ IF independent
               THEN /\ out.val.some
                    /\ ApproxZero(Plane3_distance(args.self, out.val.val))
                    /\ ApproxZero(Plane3_distance(args.other_a, out.val.val))
                    /\ ApproxZero(Plane3_distance(args.other_b, out.val.val))
               ELSE out.val = None

AxisAligned(i) ==
    /\ i.self.normal.x # Zero /\ i.self.normal.y = Zero /\ i.self.normal.z = Zero
    /\ i.other_a.normal.x = Zero /\ i.other_a.normal.y # Zero /\ i.other_a.normal.z = Zero
    /\ i.other_b.normal.x = Zero /\ i.other_b.normal.y = Zero /\ i.other_b.normal.z # Zero

TestPlanes3pl ==
    [fn |-> "intersection_3pl",
     self |-> from_abcd(R(1), R(0), R(0), R(1)),
     other_a |-> from_abcd(R(0), R(-1), R(0), R(2)),
     other_b |-> from_abcd(R(0), R(0), R(1), R(1))]

C3_NonCollinearGivesPlane ==
    (Done("from_3p") /\ Normal3p(args) # Vec3_zero) =>
        /\ ~out.abort
        /\ out.val.some
        /\ ApproxZero(Plane3_distance(out.val.val, args.a))
        /\ ApproxZero(Plane3_distance(out.val.val, args.b))
        /\ ApproxZero(Plane3_distance(out.val.val, args.c))

\* C3 (amended): for every triple of points whose cross(b - a, c - a) is not
\* approximately zero, from_3p returns Some(plane) and the plane passes
\* through a, b and c: its distance to each is (approximately) 0.
C3_From3pThroughPoints ==
    (Done("from_3p") /\ ~Vec3_approx_eq(Normal3p(args), Vec3_zero)) =>
        /\ ~out.abort
        /\ out.val.some
        /\ ApproxZero(Plane3_distance(out.val.val, args.a))
        /\ ApproxZero(Plane3_distance(out.val.val, args.b))
        /\ ApproxZero(Plane3_distance(out.val.val, args.c))

C3_Witness ==
    /\ Done("from_3p")
    /\ out.val.some
    /\ args.a # P(0, 0, 0)
    /\ out.val.val.normal.x # Zero
    /\ out.val.val.normal.y # Zero
    /\ out.val.val.distance # Zero

\* C4: from_3p returns None if and only if every component of
\* cross(b - a, c - a) is within epsilon of zero; it never aborts and returns
\* Some for every other input.
C4_From3pNoneIffApproxZero ==
    Done("from_3p") =>
        LET n == Normal3p(args)
            degenerate == /\ Lt(AbsS(n.x), approx_epsilon)
                          /\ Lt(AbsS(n.y), approx_epsilon)
                          /\ Lt(AbsS(n.z), approx_epsilon)
        IN  /\ ~out.abort
            /\ (out.val = None) <=> degenerate
            /\ (out.val # None) => out.val.some

\* The points are not collinear, but the cross product is within epsilon.
C4_Witness ==
    /\ Done("from_3p")
    /\ out.val = None
    /\ Normal3p(args) # Vec3_zero

TestPoints3p == [fn |-> "from_3p", a |-> P(5, 0, 5), b |-> P(5, 5, 5), c |-> P(5, 0, -1)]

\* C5: whenever from_3p returns Some(plane), plane.normal has magnitude 1, is
\* parallel to cross(b - a, c - a) with the same orientation, and
\* plane.distance = -dot(a, plane.normal); from_3p((5,0,5),(5,5,5),(5,0,-1))
\* is from_abcd(-1,0,0,5).
C5_From3pUnitNormal ==
    (Done("from_3p") /\ out.val.some) =>
        LET plane == out.val.val
            n == Normal3p(args)
        IN  /\ Vec3_magnitude2(plane.normal) = One
            /\ Vec3_cross(plane.normal, n) = Vec3_zero
            /\ Gt(Vec3_dot(plane.normal, n), Zero)
            /\ Add(plane.distance, Vec3_dot(as_vec3(args.a), plane.normal)) = Zero
            /\ args = TestPoints3p => plane = from_abcd(R(-1), R(0), R(0), R(5))

C5_Witness ==
    /\ Done("from_3p")
    /\ args = TestPoints3p
    /\ out = Return(Some(from_abcd(R(-1), R(0), R(0), R(5))))

\* C6: whenever intersection_2pl returns Some(ray), ray.origin lies on both
\* planes: its distance to self and to other is (approximately) 0, also for
\* planes with non-zero distance terms.
C6_RayOriginOnBothPlanes ==
    (Done("intersection_2pl") /\ out.val.some) =>
        /\ ApproxZero(Plane3_distance(args.self, out.val.val.origin))
        /\ ApproxZero(Plane3_distance(args.other, out.val.val.origin))

C8_RayPlaneDefined ==
    (pc = "done" /\ args.fn \in {"intersects", "intersection_r"}) =>
        LET denom == Vec3_dot(args.self.normal, args.ray.direction)
            t == Div(Neg(Add(Vec3_dot(args.self.normal, as_vec3(args.ray.origin)),
                             args.self.distance)), denom)
            hit == Point3_translate_v(args.ray.origin, Vec3_mul_s(args.ray.direction, t))
        IN  /\ ~out.abort
            /\ args.fn = "intersects" => out.val = ~ApproxZero(denom)
            /\ args.fn = "intersection_r" =>
                   out.val = (IF ApproxZero(denom) THEN None ELSE Some(hit))

(***************************************************************************)
(* Inputs of the quaternion operations.                                    *)
(***************************************************************************)
Q(w, x, y, z) == Quat_new(R(w), R(x), R(y), R(z))

QuatGrid ==
    {Q(w, x, y, z) : w \in -MaxCoord..MaxCoord, x \in -MaxCoord..MaxCoord,
                     y \in -MaxCoord..MaxCoord, z \in -MaxCoord..MaxCoord}

QuatFactors ==
    {Q(1, 0, 0, 0), Q(0, 1, 0, 0), Q(0, 0, 1, 0), Q(0, 0, 0, -1), Q(1, 2, 3, 4),
     Q(0, 1, -1, 2), Quat_new(Rat(1, 2), Rat(1, 2), Rat(1, 2), Rat(1, 2)),
     Quat_new(Rat(3, 5), Rat(4, 5), Zero, Zero)}

\* Quaternions of magnitude 1.
UnitQuats ==
    {Q(1, 0, 0, 0), Q(0, 1, 0, 0), Q(0, 0, 1, 0), Q(0, 0, 0, 1),
     Quat_new(Rat(1, 2), Rat(1, 2), Rat(1, 2), Rat(1, 2)),
     Quat_new(Rat(3, 5), Rat(4, 5), Zero, Zero),
     Quat_new(Rat(4, 5), Zero, Rat(3, 5), Zero),
     Quat_new(Zero, Rat(3, 5), Zero, Rat(4, 5))}

OtherQuats == {Q(2, 0, 0, 0), Q(1, 1, 0, 0), Q(0, 0, 0, 0), Q(1, 1, 1, 1)}

SlerpQuats == UnitQuats \cup {Quat_neg(q) : q \in UnitQuats} \cup OtherQuats

\* A normalized quaternion within the nlerp threshold of the identity
\* (dot = 4095/4097 > 0.9995), and the pairs it is part of.
NearIdentity == Quat_new(Rat(4095, 4097), Rat(128, 4097), Zero, Zero)

NearPairs ==
    {<<Q(1, 0, 0, 0), NearIdentity>>, <<NearIdentity, Q(1, 0, 0, 0)>>,
     <<NearIdentity, NearIdentity>>, <<NearIdentity, Quat_neg(NearIdentity)>>,
     <<Quat_neg(NearIdentity), NearIdentity>>,
     <<Quat_neg(NearIdentity), Quat_neg(NearIdentity)>>,
     <<Q(-1, 0, 0, 0), Quat_neg(NearIdentity)>>}

\* Pairs whose dot product is exactly the threshold 0.9995 = 1999/2000, and
\* pairs just above it.
ThresholdPairs ==
    {<<Q(2, 0, 0, 0), Quat_new(Rat(1999, 4000), Zero, Zero, Zero)>>,
     <<Q(1, 0, 0, 0), Quat_new(Rat(1999, 2000), Zero, Zero, Zero)>>,
     <<Q(-1, 0, 0, 0), Quat_new(Rat(-1999, 2000), Zero, Two, Zero)>>,
     <<Q(2, 0, 0, 0), Quat_new(Rat(1, 2), One, Zero, Zero)>>,
     <<Q(1, 0, 0, 0), Quat_new(Rat(999, 1000), Zero, Zero, Zero)>>}

Amounts == {R(i) : i \in -1..MaxAmount} \cup {Rat(1, 2)}

\* The inputs on which the square roots and the trigonometry of slerp are exact.
SlerpExact(i) ==
    LET dot == Quat_dot(i.self, i.other)
        robust_dot == clamp(dot, Neg(One), One)
    IN  IF Gt(dot, dot_threshold)
        THEN ExactSqrt(Quat_magnitude2(add_q(Quat_mul_s(i.self, Sub(One, i.amount)),
                                             Quat_mul_s(i.other, i.amount))))
        ELSE /\ ExactAngle(Angle_mul(acos(robust_dot), i.amount))
             /\ ExactSqrt(Quat_magnitude2(sub_q(i.other, Quat_mul_s(i.self, robust_dot))))

\* The vectors rotated by mul_v and to_mat3.
RotVecs ==
    {Vec3_new(R(x), R(y), R(z)) : x \in -MaxCoord..MaxCoord,
                                  y \in -MaxCoord..MaxCoord, z \in -MaxCoord..MaxCoord}
        \cup {Vec3_new(R(1), R(2), R(3)), Vec3_new(Rat(1, 2), R(-2), Rat(3, 4))}

RotQuats == UnitQuats \cup {Quat_neg(q) : q \in UnitQuats} \cup QuatFactors \cup OtherQuats

(***************************************************************************)
(* The quaternion operations as calls.                                     *)
(***************************************************************************)
InitQuat ==
    /\ pc = "call"
    /\ out = Pending
    /\ \/ \E q1 \in QuatGrid, q2 \in QuatFactors, q3 \in QuatFactors :
              args = [fn |-> "mul_q", q1 |-> q1, q2 |-> q2, q3 |-> q3]
       \/ \E q1 \in SlerpQuats, q2 \in SlerpQuats, t \in Amounts :
              /\ args = [fn |-> "slerp", self |-> q1, other |-> q2, amount |-> t]
              /\ SlerpExact(args)
       \/ \E q \in RotQuats \cup QuatGrid, vec \in RotVecs :
              args = [fn |-> "mul_v", q |-> q, vec |-> vec]
       \/ \E q \in RotQuats \cup QuatGrid, vec \in RotVecs :
              args = [fn |-> "to_mat3", q |-> q, vec |-> vec]
       \/ \E p \in NearPairs \cup ThresholdPairs, t \in Amounts :
              /\ args = [fn |-> "slerp", self |-> p[1], other |-> p[2], amount |-> t]
              /\ SlerpExact(args)

\* The products of three quaternions in both groupings, and of the first two
\* in both orders.
MulQ ==
    /\ pc = "call"
    /\ args.fn = "mul_q"
    /\ out' = Return([left |-> mul_q(mul_q(args.q1, args.q2), args.q3),
                      right |-> mul_q(args.q1, mul_q(args.q2, args.q3)),
                      ab |-> mul_q(args.q1, args.q2),
                      ba |-> mul_q(args.q2, args.q1)])
    /\ pc' = "done"
    /\ UNCHANGED args

Slerp ==
    /\ pc = "call"
    /\ args.fn = "slerp"
    /\ out' = [abort |-> FALSE,
               val |-> slerp(args.self, args.other, args.amount),
               locals |-> slerp_locals(args.self, args.other, args.amount)]
    /\ pc' = "done"
    /\ UNCHANGED args

\* The vector rotated by mul_v, and the sandwich product
\* q * (0, vec) * q.inverse() it is compared with.
MulV ==
    /\ pc = "call"
    /\ args.fn = "mul_v"
    /\ out' = Return([rotated |-> mul_v(args.q, args.vec),
                      sandwich |-> mul_q(mul_q(args.q, from_sv(Zero, args.vec)),
                                         inverse(args.q))])
    /\ pc' = "done"
    /\ UNCHANGED args

\* The matrix of a quaternion, and its product with a vector.
ToMat3 ==
    /\ pc = "call"
    /\ args.fn = "to_mat3"
    /\ out' = Return([mat |-> to_mat3(args.q),
                      mat_vec |-> Mat3_mul_v(to_mat3(args.q), args.vec),
                      rotated |-> mul_v(args.q, args.vec)])
    /\ pc' = "done"
    /\ UNCHANGED args

NextQuat ==
    \/ MulQ
    \/ Slerp
    \/ MulV
    \/ ToMat3

SpecQuat == InitQuat /\ [][NextQuat]_vars

(***************************************************************************)
(* Properties of the quaternion operations.                                *)
(***************************************************************************)
\* C9: mul_q is the Hamilton product (s = s1*s2 - dot(v1,v2),
\* v = s1*v2 + s2*v1 + cross(v1,v2)) and is associative:
\* q1.mul_q(q2.mul_q(q3)) = (q1.mul_q(q2)).mul_q(q3).  That it is not
\* commutative is shown by the witness.
C9_MulQAssociative ==
    Done("mul_q") =>
        /\ out.val.left = out.val.right
        /\ out.val.ab.s = Sub(Mul(args.q1.s, args.q2.s), Vec3_dot(args.q1.v, args.q2.v))
        /\ out.val.ab.v = Vec3_add_v(Vec3_add_v(Vec3_mul_s(args.q2.v, args.q1.s),
                                                Vec3_mul_s(args.q1.v, args.q2.s)),
                                     Vec3_cross(args.q1.v, args.q2.v))

\* Two quaternions whose products in the two orders differ.
C9_Witness ==
    /\ Done("mul_q")
    /\ out.val.ab # out.val.ba
    /\ out.val.left = out.val.right
    /\ args.q3 = Q(1, 2, 3, 4)

IsUnit(q) == Quat_magnitude2(q) = One

\* C10: for normalized quaternions (including other = -self) and every amount:
\* q.slerp(q, t) approximately equals q, q1.slerp(q2, 0) approximately equals
\* q1 and q1.slerp(q2, 1) approximately equals q2.
C10_SlerpEndpoints ==
    (Done("slerp") /\ IsUnit(args.self) /\ IsUnit(args.other)) =>
        /\ ~out.abort
        /\ args.self = args.other => Quat_approx_eq(out.val, args.self)
        /\ args.amount = Zero => Quat_approx_eq(out.val, args.self)
        /\ args.amount = One => Quat_approx_eq(out.val, args.other)

\* What the trigonometric branch of slerp returns:
\* self*cos(theta) + q*sin(theta), theta = acos(clamp(dot)) * amount and
\* q = normalize(other - self*clamp(dot)).
TrigSlerp(self, other, amount) ==
    LET d == clamp(Quat_dot(self, other), Neg(One), One)
        theta == Angle_mul(acos(d), amount)
    IN  add_q(Quat_mul_s(self, cos(theta)),
              Quat_mul_s(Quat_normalize(sub_q(other, Quat_mul_s(self, d))), sin(theta)))

\* C11: when dot(q1, q2) > 0.9995, q1.slerp(q2, t) returns exactly
\* q1.nlerp(q2, t) = normalize(q1*(1-t) + q2*t) and acos is not called; when
\* dot(q1, q2) <= 0.9995, exactly 0.9995 included, the trigonometric branch
\* is taken.
C11_SlerpThreshold ==
    Done("slerp") =>
        IF Gt(Quat_dot(args.self, args.other), Rat(1999, 2000))
        THEN /\ out.val = Quat_normalize(add_q(Quat_mul_s(args.self, Sub(One, args.amount)),
                                               Quat_mul_s(args.other, args.amount)))
             /\ out.val = nlerp(args.self, args.other, args.amount)
             /\ out.locals.path = "nlerp"
             /\ out.locals.acos_args = <<>>
        ELSE /\ out.val = TrigSlerp(args.self, args.other, args.amount)
             /\ out.locals.path = "trig"
             /\ Len(out.locals.acos_args) = 1

\* A call whose dot product is exactly 0.9995, on which the two branches
\* would return different quaternions.
C11_Witness ==
    /\ Done("slerp")
    /\ Quat_dot(args.self, args.other) = Rat(1999, 2000)
    /\ out.locals.path = "trig"
    /\ out.val # nlerp(args.self, args.other, args.amount)
    /\ out.val = Q(2, 0, 0, 0)

\* A call above the threshold, on which the two branches would return
\* different quaternions.
C11_NlerpTaken ==
    /\ Done("slerp")
    /\ Gt(Quat_dot(args.self, args.other), Rat(1999, 2000))
    /\ out.val # TrigSlerp(args.self, args.other, args.amount)

\* C12: in slerp the value passed to acos always lies in [-1, 1], whatever the
\* raw dot product of the two quaternions: it is the raw dot product clamped
\* to [-1, 1], and the same clamped value d forms the orthogonal component
\* other - self*d.
C12_AcosArgumentClamped ==
    Done("slerp") =>
        LET dot == Quat_dot(args.self, args.other)
        IN  /\ \A i \in DOMAIN out.locals.acos_args :
                   LET x == out.locals.acos_args[i]
                   IN  /\ IsFinite(x)
                       /\ ~Lt(x, R(-1))
                       /\ ~Gt(x, R(1))
                       /\ x = (IF Lt(dot, R(-1)) THEN R(-1)
                               ELSE IF Gt(dot, R(1)) THEN R(1) ELSE dot)
            /\ out.locals.orth_args = out.locals.acos_args
            /\ out.locals.path = "trig" =>
                   LET d == out.locals.acos_args[1]
                       theta == Angle_mul(acos(d), args.amount)
                   IN  out.val = add_q(Quat_mul_s(args.self, cos(theta)),
                                       Quat_mul_s(Quat_normalize(sub_q(args.other,
                                                      Quat_mul_s(args.self, d))),
                                                  sin(theta)))

\* A call on quaternions that are not normalized, with a raw dot product
\* below -1, where acos was called with -1.
C12_Witness ==
    /\ Done("slerp")
    /\ Lt(Quat_dot(args.self, args.other), R(-1))
    /\ out.locals.acos_args = <<R(-1)>>
    /\ ~IsNaN(out.val.s)

\* C13: for every quaternion q = (s, v) of norm 1 and every vector vec,
\* q.mul_v(vec) = vec + 2*cross(v, cross(v, vec) + vec*s) is the vector part
\* of q.mul_q(Quat(0, vec)).mul_q(q.inverse()), whose scalar part is 0.
C13_MulVIsSandwich ==
    (Done("mul_v") /\ IsUnit(args.q)) =>
        /\ out.val.rotated =
               Vec3_add_v(args.vec,
                          Vec3_mul_s(Vec3_cross(args.q.v,
                                                Vec3_add_v(Vec3_cross(args.q.v, args.vec),
                                                           Vec3_mul_s(args.vec, args.q.s))),
                                     R(2)))
        /\ out.val.sandwich.v = out.val.rotated
        /\ out.val.sandwich.s = Zero

\* A quaternion of norm 1 with all four components non-zero that moves the
\* vector it rotates.
C13_Witness ==
    /\ Done("mul_v")
    /\ IsUnit(args.q)
    /\ args.q = Quat_new(Rat(1, 2), Rat(1, 2), Rat(1, 2), Rat(1, 2))
    /\ args.vec = Vec3_new(R(1), R(2), R(3))
    /\ out.val.rotated = Vec3_new(R(3), R(1), R(2))
    /\ out.val.sandwich.v = out.val.rotated

IdentityMat3 ==
    Mat3_new(One, Zero, Zero,
             Zero, One, Zero,
             Zero, Zero, One)

\* C14: with the nine arguments of Mat3::new read column by column, for every
\* quaternion q and vector vec the product q.to_mat3() * vec equals
\* q.mul_v(vec), and to_mat3 of the identity quaternion is the identity
\* matrix.
C14_ToMat3AgreesWithMulV ==
    Done("to_mat3") =>
        /\ out.val.mat_vec = out.val.rotated
        /\ out.val.mat_vec =
               Vec3_new(Vec3_dot(Vec3_new(out.val.mat.x.x, out.val.mat.y.x, out.val.mat.z.x),
                                 args.vec),
                        Vec3_dot(Vec3_new(out.val.mat.x.y, out.val.mat.y.y, out.val.mat.z.y),
                                 args.vec),
                        Vec3_dot(Vec3_new(out.val.mat.x.z, out.val.mat.y.z, out.val.mat.z.z),
                                 args.vec))
        /\ args.q = Q(1, 0, 0, 0) => out.val.mat = IdentityMat3

\* A quaternion whose matrix is not symmetric, so that reading the arguments
\* row by row would give another product.
C14_Witness ==
    /\ Done("to_mat3")
    /\ args.q = Quat_new(Rat(3, 5), Rat(4, 5), Zero, Zero)
    /\ args.vec = Vec3_new(R(0), R(1), R(0))
    /\ out.val.mat # Mat3_transpose(out.val.mat)
    /\ out.val.mat_vec = Vec3_new(Zero, Rat(-7, 25), Rat(24, 25))
    /\ out.val.rotated = out.val.mat_vec

\* The identity quaternion, whose matrix is the identity.
C14_IdentityReached ==
    /\ Done("to_mat3")
    /\ args.q = Q(1, 0, 0, 0)
    /\ out.val.mat = IdentityMat3

(***************************************************************************)
(* Inputs of the point operations.                                         *)
(***************************************************************************)
Points2 ==
    {Point2_new(R(x), R(y)) : x \in -MaxCoord..MaxCoord, y \in -MaxCoord..MaxCoord}
        \cup {Point2_new(R(3), R(4)), Point2_new(Rat(1, 2), Rat(-3, 2))}

Points3 ==
    {Point3_new(R(x), R(y), R(z)) : x \in -MaxCoord..MaxCoord,
                                    y \in -MaxCoord..MaxCoord, z \in -MaxCoord..MaxCoord}
        \cup {Point3_new(R(2), R(3), R(6)), Point3_new(Rat(1, 2), Rat(-3, 2), R(0))}

(***************************************************************************)
(* The point operations as calls.  distance and direction are called on    *)
(* the pairs whose squared distance has an exact square root.              *)
(***************************************************************************)
InitPoint ==
    /\ pc = "call"
    /\ out = Pending
    /\ \/ \E p \in Points2, q \in Points2 :
              args = [fn |-> "Point2::displacement", p |-> p, q |-> q]
       \/ \E p \in Points2, q \in Points2 :
              /\ args = [fn |-> "Point2::distance", p |-> p, q |-> q]
              /\ ExactSqrt(Point2_distance2(p, q))
       \/ \E p \in Points3, q \in Points3 :
              args = [fn |-> "Point3::displacement", p |-> p, q |-> q]
       \/ \E p \in Points3, q \in Points3 :
              /\ args = [fn |-> "Point3::distance", p |-> p, q |-> q]
              /\ ExactSqrt(Point3_distance2(p, q))

\* p.displacement(q), p - q, q.displacement(p), q translated by
\* p.displacement(q), and the squared distance in both orders.
Point2Displacement ==
    /\ pc = "call"
    /\ args.fn = "Point2::displacement"
    /\ out' = Return([displacement |-> Point2_displacement(args.p, args.q),
                      sub |-> Point2_sub(args.p, args.q),
                      reverse |-> Point2_displacement(args.q, args.p),
                      back |-> Point2_translate_v(args.q,
                                                  Point2_displacement(args.p, args.q)),
                      distance2 |-> Point2_distance2(args.p, args.q),
                      distance2_rev |-> Point2_distance2(args.q, args.p)])
    /\ pc' = "done"
    /\ UNCHANGED args

Point2Distance ==
    /\ pc = "call"
    /\ args.fn = "Point2::distance"
    /\ out' = Return([distance |-> Point2_distance(args.p, args.q),
                      direction |-> Point2_direction(args.p, args.q),
                      displacement |-> Point2_displacement(args.p, args.q)])
    /\ pc' = "done"
    /\ UNCHANGED args

Point3Displacement ==
    /\ pc = "call"
    /\ args.fn = "Point3::displacement"
    /\ out' = Return([displacement |-> Point3_displacement(args.p, args.q),
                      sub |-> Point3_sub(args.p, args.q),
                      reverse |-> Point3_displacement(args.q, args.p),
                      back |-> Point3_translate_v(args.q,
                                                  Point3_displacement(args.p, args.q)),
                      distance2 |-> Point3_distance2(args.p, args.q),
                      distance2_rev |-> Point3_distance2(args.q, args.p)])
    /\ pc' = "done"
    /\ UNCHANGED args

Point3Distance ==
    /\ pc = "call"
    /\ args.fn = "Point3::distance"
    /\ out' = Return([distance |-> Point3_distance(args.p, args.q),
                      direction |-> Point3_direction(args.p, args.q),
                      displacement |-> Point3_displacement(args.p, args.q)])
    /\ pc' = "done"
    /\ UNCHANGED args

NextPoint ==
    \/ Point2Displacement
    \/ Point2Distance
    \/ Point3Displacement
    \/ Point3Distance

SpecPoint == InitPoint /\ [][NextPoint]_vars

(***************************************************************************)
(* Properties of the point operations.                                     *)
(***************************************************************************)
\* The sum of the squared components of a vector of either dimension.
SumSquares(v) ==
    IF "z" \in DOMAIN v
    THEN Add(Add(Mul(v.x, v.x), Mul(v.y, v.y)), Mul(v.z, v.z))
    ELSE Add(Mul(v.x, v.x), Mul(v.y, v.y))

\* Componentwise a - b and -a for points and vectors of either dimension.
Minus(a, b) == [c \in DOMAIN a |-> Sub(a[c], b[c])]

Negated(a) == [c \in DOMAIN a |-> Neg(a[c])]

Scaled(a, k) == [c \in DOMAIN a |-> Mul(a[c], k)]

C15_WitnessPoint2 ==
    /\ Done("Point2::displacement")
    /\ args.p = Point2_new(R(3), R(4))
    /\ args.q = Point2_new(R(0), R(1))
    /\ out.val.displacement = Vec2_new(R(3), R(3))
    /\ out.val.back = args.p

\* The direction from p to q points along q - p.
C15_WitnessDirection ==
    /\ Done("Point2::distance")
    /\ args.p = Point2_new(R(3), R(4))
    /\ args.q = Point2_new(R(0), R(0))
    /\ out.val.distance = R(5)
    /\ out.val.direction = Vec2_new(Rat(-3, 5), Rat(-4, 5))

=============================================================================
